---------------------------- MODULE Spec2Model ----------------------------
(***************************************************************************)
(* Store inventory application (src/st.py): the sqlite tables users,       *)
(* inventory and sales, the data-layer functions that read and write them, *)
(* and the Streamlit form handlers that call them.  Streamlit serves every *)
(* browser session with its own script run against the one inventory.db,   *)
(* so a script run's read of the inventory (get_inventory) and its later   *)
(* write (update_item, delete_item, record_sale) are separate steps that   *)
(* other sessions' steps may come between.                                 *)
(***************************************************************************)
EXTENDS Integers, Sequences, FiniteSets, TLC

(* Bounds of the model: the add_item calls of a behaviour (the ids
   AUTOINCREMENT hands out), the record_sale calls, and the largest quantity
   typed into a form. *)
MaxItems == 2
MaxSales == 2
MaxQty == 2

(* Sample inputs. *)
Sessions == {"s1", "s2"}
Usernames == {"admin", "bob", "carol"}
Passwords == {"admin123", "hunter22", "short"}
ItemForms ==
    { [item |-> "Rice",  category |-> "Other",   price |-> 500, min_stock |-> 5],
      [item |-> "Beans", category |-> "protein", price |-> 480, min_stock |-> 1] }
ItemNames == { f.item : f \in ItemForms }
SalePrices == {450}
Now == "2025-01-01 10:00:00"

(* Python values a function of st.py returns.  login_user returns
   `data and check_hashes(...)`: None when fetchone() found no row. *)
PyTrue == "True"
PyFalse == "False"
PyNone == "None"
Truthy(v) == v = PyTrue

MinPasswordLen == 8

VARIABLES
    users,          \* table users: username -> password digest
    inventory,      \* table inventory: id -> row
    inventory_seq,  \* sqlite_sequence entry of inventory (AUTOINCREMENT)
    sales,          \* table sales, in id order (rows are never deleted)
    logged_in,      \* st.session_state.logged_in of each session
    run,            \* each session's script run: its position and locals
    call            \* the data-layer call of the last handler and its result

vars == <<users, inventory, inventory_seq, sales, logged_in, run, call>>

Idle == [pc |-> "idle", item_id |-> 0, max_qty |-> 0]

-----------------------------------------------------------------------------
(* Authentication *)

(* hashlib.sha256(...).hexdigest(): a digest is not the password, and
   different passwords have different digests. *)
make_hashes(password) == "sha256:" \o password

check_hashes(password, hashed_text) ==
    IF make_hashes(password) = hashed_text THEN PyTrue ELSE PyFalse

(* INSERT OR IGNORE of the admin row; the CREATE TABLE IF NOT EXISTS
   statements leave existing tables as they are. *)
init_db ==
    IF "admin" \in DOMAIN users
    THEN users
    ELSE users @@ ("admin" :> make_hashes("admin123"))

(* INSERT of the plaintext instead of its digest. *)
create_user_plaintext(username, password) ==
    IF username \in DOMAIN users
    THEN [ret |-> PyFalse, users |-> users]
    ELSE [ret |-> PyTrue, users |-> users @@ (username :> password)]

(* INSERT OR REPLACE instead of INSERT. *)
create_user_replace(username, password) ==
    [ret |-> PyTrue,
     users |-> [u \in DOMAIN users \cup {username} |->
                  IF u = username THEN make_hashes(password) ELSE users[u]]]

(* INSERT; username is the PRIMARY KEY, so a second row of one username
   raises sqlite3.IntegrityError and nothing is committed. *)
create_user(username, password) ==
    IF username \in DOMAIN users
    THEN [ret |-> PyFalse, users |-> users]
    ELSE [ret |-> PyTrue,
          users |-> users @@ (username :> make_hashes(password))]

login_user(username, password) ==
    IF username \notin DOMAIN users
    THEN PyNone
    ELSE check_hashes(password, users[username])

-----------------------------------------------------------------------------
(* Inventory and sales functions *)

Max(S) == CHOOSE x \in S : \A y \in S : y <= x
Min(S) == CHOOSE x \in S : \A y \in S : x <= y

RECURSIVE SortedIds(_)
SortedIds(S) ==
    IF S = {} THEN <<>> ELSE <<Min(S)>> \o SortedIds(S \ {Min(S)})

get_inventory ==
    LET ids == SortedIds(DOMAIN inventory)
    IN  [k \in 1..Len(ids) |-> inventory[ids[k]]]

(* INTEGER PRIMARY KEY without AUTOINCREMENT: the rowid after the largest
   one in the table. *)
add_item_reuse(item, category, quantity, price, min_stock) ==
    LET id == Max(DOMAIN inventory \cup {0}) + 1
    IN  [inventory |-> inventory @@
             (id :> [id |-> id, item |-> item, category |-> category,
                     quantity |-> quantity, price |-> price,
                     min_stock |-> min_stock]),
         inventory_seq |-> id]

(* INSERT; AUTOINCREMENT gives the row the id after the largest one the
   table has ever held. *)
add_item(item, category, quantity, price, min_stock) ==
    LET id == Max(DOMAIN inventory \cup {inventory_seq}) + 1
    IN  [inventory |-> inventory @@
             (id :> [id |-> id, item |-> item, category |-> category,
                     quantity |-> quantity, price |-> price,
                     min_stock |-> min_stock]),
         inventory_seq |-> id]

(* UPDATE without its WHERE clause. *)
update_item_no_where(item_id, item, category, quantity, price, min_stock) ==
    [i \in DOMAIN inventory |->
        [id |-> i, item |-> item, category |-> category,
         quantity |-> quantity, price |-> price, min_stock |-> min_stock]]

update_item(item_id, item, category, quantity, price, min_stock) ==
    [i \in DOMAIN inventory |->
        IF i = item_id
        THEN [id |-> i, item |-> item, category |-> category,
              quantity |-> quantity, price |-> price, min_stock |-> min_stock]
        ELSE inventory[i]]

(* DELETE with ON DELETE CASCADE in force. *)
delete_item_cascade(item_id) ==
    [inventory |-> [i \in DOMAIN inventory \ {item_id} |-> inventory[i]],
     sales |-> SelectSeq(sales, LAMBDA s : s.item_id # item_id)]

(* DELETE; sqlite enforces FOREIGN KEY only under PRAGMA foreign_keys = ON,
   which no connection sets: the sales table is not touched. *)
delete_item(item_id) ==
    [inventory |-> [i \in DOMAIN inventory \ {item_id} |-> inventory[i]],
     sales |-> sales]

(* The decrement computed from the item's data instead of the sale. *)
record_sale_one(item_id, quantity, sale_price) ==
    [inventory |->
        [i \in DOMAIN inventory |->
            IF i = item_id
            THEN [inventory[i] EXCEPT !.quantity = @ - 1]
            ELSE inventory[i]],
     sales |-> Append(sales,
        [id |-> Len(sales) + 1, item_id |-> item_id, quantity |-> quantity,
         sale_price |-> sale_price, sale_date |-> Now])]

(* UPDATE ... WHERE id = ? AND quantity >= ?: a decrement that checks the
   stock. *)
record_sale_checked(item_id, quantity, sale_price) ==
    [inventory |->
        [i \in DOMAIN inventory |->
            IF i = item_id /\ inventory[i].quantity >= quantity
            THEN [inventory[i] EXCEPT !.quantity = @ - quantity]
            ELSE inventory[i]],
     sales |-> Append(sales,
        [id |-> Len(sales) + 1, item_id |-> item_id, quantity |-> quantity,
         sale_price |-> sale_price, sale_date |-> Now])]

(* UPDATE and INSERT in one transaction, committed together.  No row is
   ever deleted from sales, so AUTOINCREMENT numbers its rows 1, 2, ... *)
record_sale(item_id, quantity, sale_price) ==
    [inventory |->
        [i \in DOMAIN inventory |->
            IF i = item_id
            THEN [inventory[i] EXCEPT !.quantity = @ - quantity]
            ELSE inventory[i]],
     sales |-> Append(sales,
        [id |-> Len(sales) + 1, item_id |-> item_id, quantity |-> quantity,
         sale_price |-> sale_price, sale_date |-> Now])]

(* sales JOIN inventory ON s.item_id = i.id *)
get_sales ==
    LET joined == SelectSeq(sales, LAMBDA s : s.item_id \in DOMAIN inventory)
    IN  [k \in 1..Len(joined) |->
            [id |-> joined[k].id, item |-> inventory[joined[k].item_id].item,
             quantity |-> joined[k].quantity,
             sale_price |-> joined[k].sale_price,
             sale_date |-> joined[k].sale_date]]

(* inventory[inventory['item'] == name].iloc[0] *)
FirstByName(name) ==
    LET df == get_inventory
        hits == { k \in 1..Len(df) : df[k].item = name }
    IN  df[Min(hits)]

-----------------------------------------------------------------------------
(* Handlers.  call records the data-layer call a handler made, with its
   arguments and what it returned. *)

Init ==
    /\ users = ("admin" :> make_hashes("admin123"))
    /\ inventory = <<>>
    /\ inventory_seq = 0
    /\ sales = <<>>
    /\ logged_in = [s \in Sessions |-> FALSE]
    /\ run = [s \in Sessions |-> Idle]
    /\ call = [op |-> "init_db"]

InitDb ==
    /\ users' = init_db
    /\ call' = [op |-> "init_db"]
    /\ UNCHANGED <<inventory, inventory_seq, sales, logged_in, run>>

(* "Create Account": the two error branches call nothing. *)
SignUp(s, new_username, new_password, confirm_password) ==
    /\ ~logged_in[s]
    /\ new_password = confirm_password
    /\ Len(new_password) >= MinPasswordLen
    /\ LET r == create_user(new_username, new_password)
       IN  /\ users' = r.users
           /\ call' = [op |-> "create_user", username |-> new_username,
                       password |-> new_password, ret |-> r.ret]
    /\ UNCHANGED <<inventory, inventory_seq, sales, logged_in, run>>

Login(s, username, password) ==
    /\ ~logged_in[s]
    /\ LET r == login_user(username, password)
       IN  /\ logged_in' = [logged_in EXCEPT ![s] = (logged_in[s] \/ Truthy(r))]
           /\ call' = [op |-> "login_user", username |-> username,
                       password |-> password, ret |-> r]
    /\ UNCHANGED <<users, inventory, inventory_seq, sales, run>>

Logout(s) ==
    /\ logged_in[s]
    /\ logged_in' = [logged_in EXCEPT ![s] = FALSE]
    /\ run' = [run EXCEPT ![s] = Idle]
    /\ call' = [op |-> "logout"]
    /\ UNCHANGED <<users, inventory, inventory_seq, sales>>

(* "Add Item": the quantity input has min_value 0. *)
AddItem(s, f, quantity) ==
    /\ logged_in[s]
    /\ f.item # ""
    /\ inventory_seq < MaxItems
    /\ LET r == add_item(f.item, f.category, quantity, f.price, f.min_stock)
       IN  /\ inventory' = r.inventory
           /\ inventory_seq' = r.inventory_seq
    /\ run' = [run EXCEPT ![s] = Idle]
    /\ call' = [op |-> "add_item", item |-> f.item, category |-> f.category,
                quantity |-> quantity, price |-> f.price,
                min_stock |-> f.min_stock]
    /\ UNCHANGED <<users, sales, logged_in>>

(* A script run reads the inventory and builds the edit form for the first
   row of the chosen name. *)
RenderEdit(s, edit_choice) ==
    /\ logged_in[s]
    /\ \E i \in DOMAIN inventory : inventory[i].item = edit_choice
    /\ LET item_data == FirstByName(edit_choice)
       IN  run' = [run EXCEPT ![s] =
                      [pc |-> "edit", item_id |-> item_data.id, max_qty |-> 0]]
    /\ call' = [op |-> "get_inventory"]
    /\ UNCHANGED <<users, inventory, inventory_seq, sales, logged_in>>

(* "Update Item" and "Delete Item" act on the id the run read. *)
UpdateItem(s, f, new_quantity) ==
    /\ logged_in[s]
    /\ run[s].pc = "edit"
    /\ inventory' = update_item(run[s].item_id, f.item, f.category,
                                new_quantity, f.price, f.min_stock)
    /\ run' = [run EXCEPT ![s] = Idle]
    /\ call' = [op |-> "update_item", item_id |-> run[s].item_id,
                item |-> f.item, category |-> f.category,
                quantity |-> new_quantity, price |-> f.price,
                min_stock |-> f.min_stock]
    /\ UNCHANGED <<users, inventory_seq, sales, logged_in>>

DeleteItem(s) ==
    /\ logged_in[s]
    /\ run[s].pc = "edit"
    /\ LET r == delete_item(run[s].item_id)
       IN  /\ inventory' = r.inventory
           /\ sales' = r.sales
    /\ run' = [run EXCEPT ![s] = Idle]
    /\ call' = [op |-> "delete_item", item_id |-> run[s].item_id,
                ret |-> PyNone]
    /\ UNCHANGED <<users, inventory_seq, logged_in>>

(* A script run reads the inventory and builds the sale form for the first
   row of the chosen name; its quantity input runs from 1 to the quantity
   read, so a row with less than 1 gives no form to submit. *)
RenderSale(s, item) ==
    /\ logged_in[s]
    /\ \E i \in DOMAIN inventory : inventory[i].item = item
    /\ LET row == FirstByName(item)
       IN  /\ row.quantity >= 1
           /\ run' = [run EXCEPT ![s] =
                  [pc |-> "sale", item_id |-> row.id, max_qty |-> row.quantity]]
    /\ call' = [op |-> "get_inventory"]
    /\ UNCHANGED <<users, inventory, inventory_seq, sales, logged_in>>

(* "Record Sale": the quantity typed is between 1 and the quantity read. *)
RecordSale(s, quantity, sale_price) ==
    /\ logged_in[s]
    /\ run[s].pc = "sale"
    /\ quantity >= 1
    /\ quantity <= run[s].max_qty
    /\ Len(sales) < MaxSales
    /\ LET r == record_sale(run[s].item_id, quantity, sale_price)
       IN  /\ inventory' = r.inventory
           /\ sales' = r.sales
    /\ run' = [run EXCEPT ![s] = Idle]
    /\ call' = [op |-> "record_sale", session |-> s,
                item_id |-> run[s].item_id, max_qty |-> run[s].max_qty,
                quantity |-> quantity, sale_price |-> sale_price]
    /\ UNCHANGED <<users, inventory_seq, logged_in>>

Next ==
    \/ InitDb
    \/ \E s \in Sessions, u \in Usernames, p \in Passwords, c \in Passwords :
          SignUp(s, u, p, c)
    \/ \E s \in Sessions, u \in Usernames, p \in Passwords : Login(s, u, p)
    \/ \E s \in Sessions : Logout(s)
    \/ \E s \in Sessions, f \in ItemForms, q \in 0..MaxQty : AddItem(s, f, q)
    \/ \E s \in Sessions, n \in ItemNames : RenderEdit(s, n)
    \/ \E s \in Sessions, f \in ItemForms, q \in 0..MaxQty : UpdateItem(s, f, q)
    \/ \E s \in Sessions : DeleteItem(s)
    \/ \E s \in Sessions, n \in ItemNames : RenderSale(s, n)
    \/ \E s \in Sessions, q \in 1..MaxQty, p \in SalePrices :
          RecordSale(s, q, p)

Spec == Init /\ [][Next]_vars

(* The authentication page alone. *)
AuthNext ==
    \/ InitDb
    \/ \E s \in Sessions, u \in Usernames, p \in Passwords, c \in Passwords :
          SignUp(s, u, p, c)
    \/ \E s \in Sessions, u \in Usernames, p \in Passwords : Login(s, u, p)
    \/ \E s \in Sessions : Logout(s)

AuthSpec == Init /\ [][AuthNext]_vars

(* The main application, every session logged in as the seeded admin: the
   state the authentication page is in once each session has logged in. *)
StoreInit ==
    /\ users = ("admin" :> make_hashes("admin123"))
    /\ inventory = <<>>
    /\ inventory_seq = 0
    /\ sales = <<>>
    /\ logged_in = [s \in Sessions |-> TRUE]
    /\ run = [s \in Sessions |-> Idle]
    /\ call = [op |-> "login_user", username |-> "admin",
               password |-> "admin123", ret |-> PyTrue]

StoreNext ==
    \/ \E s \in Sessions, f \in ItemForms, q \in 0..MaxQty : AddItem(s, f, q)
    \/ \E s \in Sessions, n \in ItemNames : RenderEdit(s, n)
    \/ \E s \in Sessions, f \in ItemForms, q \in 0..MaxQty : UpdateItem(s, f, q)
    \/ \E s \in Sessions : DeleteItem(s)
    \/ \E s \in Sessions, n \in ItemNames : RenderSale(s, n)
    \/ \E s \in Sessions, q \in 1..MaxQty, p \in SalePrices :
          RecordSale(s, q, p)

StoreSpec == StoreInit /\ [][StoreNext]_vars

(* The Inventory page: two sessions adding, editing and deleting items. *)
EditNext ==
    \/ \E s \in Sessions, f \in ItemForms, q \in 0..MaxQty : AddItem(s, f, q)
    \/ \E s \in Sessions, n \in ItemNames : RenderEdit(s, n)
    \/ \E s \in Sessions, f \in ItemForms, q \in 0..MaxQty : UpdateItem(s, f, q)
    \/ \E s \in Sessions : DeleteItem(s)

EditSpec == StoreInit /\ [][EditNext]_vars

(* The Sales page: two sessions selling from the stock that was added. *)
SaleNext ==
    \/ \E s \in Sessions, f \in ItemForms, q \in 0..MaxQty : AddItem(s, f, q)
    \/ \E s \in Sessions, n \in ItemNames : RenderSale(s, n)
    \/ \E s \in Sessions, q \in 1..MaxQty, p \in SalePrices :
          RecordSale(s, q, p)

SaleSpec == StoreInit /\ [][SaleNext]_vars

(* Items added and deleted by one session while another sells them. *)
Keepers == {"s1"}
Sellers == {"s2"}

OrphanNext ==
    \/ \E s \in Keepers, f \in ItemForms, q \in 0..MaxQty : AddItem(s, f, q)
    \/ \E s \in Keepers, n \in ItemNames : RenderEdit(s, n)
    \/ \E s \in Keepers : DeleteItem(s)
    \/ \E s \in Sellers, n \in ItemNames : RenderSale(s, n)
    \/ \E s \in Sellers, q \in 1..MaxQty, p \in SalePrices :
          RecordSale(s, q, p)

OrphanSpec == StoreInit /\ [][OrphanNext]_vars

-----------------------------------------------------------------------------
(* Properties *)

SaleIds(rows) == { rows[k].id : k \in 1..Len(rows) }

(* C1: a sign-up under a username that is not in the users table returns
   True and login_user accepts that username and password from then on: no
   later step makes login_user reject a pair it accepted, and a Login with
   an accepted pair returns True and logs the session in. *)
C1_SignupThenLogin ==
    [][\A u \in Usernames, p \in Passwords :
          /\ (/\ call'.op = "create_user"
              /\ call'.username = u
              /\ call'.password = p
              /\ u \notin DOMAIN users)
                => (call'.ret = PyTrue /\ login_user(u, p)' = PyTrue)
          /\ (login_user(u, p) = PyTrue) => (login_user(u, p)' = PyTrue)
          /\ (/\ call'.op = "login_user"
              /\ call'.username = u
              /\ call'.password = p
              /\ login_user(u, p) = PyTrue)
                => (/\ call'.ret = PyTrue
                    /\ \E s \in Sessions : ~logged_in[s] /\ logged_in'[s])
      ]_vars

(* A user other than the seeded admin signed up earlier and has now logged
   in with the password of the sign-up. *)
C1_Witness ==
    /\ call.op = "login_user"
    /\ call.username # "admin"
    /\ call.ret = PyTrue
    /\ \E s \in Sessions : logged_in[s]

(* C2: a sign-up under a username that is already in the users table (the
   seeded admin or an earlier sign-up) returns False and leaves the users
   table as it was, so login_user answers every password as before. *)
C2_DuplicateSignupRejected ==
    [][\A u \in Usernames :
          (call'.op = "create_user" /\ call'.username = u /\ u \in DOMAIN users)
             => (/\ call'.ret = PyFalse
                 /\ users' = users
                 /\ \A p \in Passwords :
                       login_user(u, p)' = login_user(u, p))
      ]_vars

(* A sign-up was rejected whose password differs from the stored one, and
   login_user still refuses that password. *)
C2_Witness ==
    /\ call.op = "create_user"
    /\ call.ret = PyFalse
    /\ call.username \in DOMAIN users
    /\ users[call.username] # make_hashes(call.password)
    /\ login_user(call.username, call.password) = PyFalse

(* C3: login_user returns the boolean False when the username is not
   registered and when the password is not the registered one. *)
C3_LoginFailureIsFalse ==
    (/\ call.op = "login_user"
     /\ \/ call.username \notin DOMAIN users
        \/ users[call.username] # make_hashes(call.password))
        => call.ret = PyFalse

(* C4: record_sale on an existing item takes the sale's quantity off that
   item's quantity, leaves every other inventory row as it was, appends one
   sales row with the item id, quantity and price of the call after the
   earlier rows, and get_sales lists that row under the item's name. *)
C4_RecordSaleEffect ==
    [][(call'.op = "record_sale" /\ call'.item_id \in DOMAIN inventory)
          => LET i == call'.item_id
                 n == Len(sales)
             IN  /\ DOMAIN inventory' = DOMAIN inventory
                 /\ inventory'[i] =
                      [inventory[i] EXCEPT
                          !.quantity = inventory[i].quantity - call'.quantity]
                 /\ \A j \in DOMAIN inventory \ {i} :
                        inventory'[j] = inventory[j]
                 /\ Len(sales') = n + 1
                 /\ SubSeq(sales', 1, n) = sales
                 /\ sales'[n + 1].id \notin SaleIds(sales)
                 /\ sales'[n + 1].item_id = i
                 /\ sales'[n + 1].quantity = call'.quantity
                 /\ sales'[n + 1].sale_price = call'.sale_price
                 /\ Len(get_sales') = Len(get_sales) + 1
                 /\ \E k \in 1..Len(get_sales') :
                        /\ get_sales'[k].id = sales'[n + 1].id
                        /\ get_sales'[k].item = inventory'[i].item
                        /\ get_sales'[k].quantity = call'.quantity
                        /\ get_sales'[k].sale_price = call'.sale_price
      ]_vars

(* A sale of more than one unit was recorded while another item and an
   earlier sale were in the tables. *)
C4_Witness ==
    /\ call.op = "record_sale"
    /\ call.item_id \in DOMAIN inventory
    /\ call.quantity > 1
    /\ Cardinality(DOMAIN inventory) > 1
    /\ Len(sales) > 1
    /\ sales[Len(sales)].item_id = call.item_id

(* C5: the quantity of every inventory item is at least 0. *)
C5_QuantityNeverNegative ==
    \A i \in DOMAIN inventory : inventory[i].quantity >= 0

(* C6: delete_item of an id that is not in the inventory table returns the
   NotFound outcome and leaves the table unchanged. *)
C6_DeleteMissingIsNotFound ==
    [][(call'.op = "delete_item" /\ call'.item_id \notin DOMAIN inventory)
          => (call'.ret = "NotFound" /\ inventory' = inventory)
      ]_vars

(* C7: update_item of an existing id leaves the set of ids as it was, gives
   the row of that id the five values of the call under the same id, and
   leaves every other row as it was; get_inventory lists the same number of
   rows, among them the updated one. *)
C7_UpdateRoundTrip ==
    [][(call'.op = "update_item" /\ call'.item_id \in DOMAIN inventory)
          => LET i == call'.item_id
                 before == get_inventory
                 after == get_inventory'
             IN  /\ DOMAIN inventory' = DOMAIN inventory
                 /\ inventory'[i] =
                      [id |-> i, item |-> call'.item,
                       category |-> call'.category,
                       quantity |-> call'.quantity, price |-> call'.price,
                       min_stock |-> call'.min_stock]
                 /\ \A j \in DOMAIN inventory \ {i} :
                        inventory'[j] = inventory[j]
                 /\ Len(after) = Len(before)
                 /\ \A k \in 1..Len(before) :
                        /\ after[k].id = before[k].id
                        /\ before[k].id = i => after[k] = inventory'[i]
                        /\ before[k].id # i => after[k] = before[k]
      ]_vars

(* An item was updated while another item was in the table, and the row
   carries the values of the call. *)
C7_Witness ==
    /\ call.op = "update_item"
    /\ call.item_id \in DOMAIN inventory
    /\ Cardinality(DOMAIN inventory) > 1
    /\ inventory[call.item_id].item = call.item
    /\ inventory[call.item_id].quantity = call.quantity

(* C8: delete_item leaves the sales table as it was, and after it get_sales
   lists exactly the sales whose item is still in the inventory table: no
   sale of the deleted item is listed. *)
C8_DeleteKeepsSales ==
    [][(call'.op = "delete_item")
          => (/\ sales' = sales
              /\ call'.item_id \notin DOMAIN inventory'
              /\ SaleIds(get_sales') =
                    { sales'[k].id : k \in
                        { m \in 1..Len(sales') :
                            sales'[m].item_id \in DOMAIN inventory' } }
              /\ \A k \in 1..Len(sales') :
                    sales'[k].item_id = call'.item_id
                        => sales'[k].id \notin SaleIds(get_sales'))
      ]_vars

(* An item with a recorded sale was deleted: the sale is still in the sales
   table and get_sales no longer lists it. *)
C8_Witness ==
    /\ call.op = "delete_item"
    /\ \E k \in 1..Len(sales) :
          /\ sales[k].item_id = call.item_id
          /\ sales[k].id \notin SaleIds(get_sales)
    /\ Len(get_sales) < Len(sales)

(* C9: sales are not serialized.  Every recorded sale is of a quantity
   between 1 and the stock its session read when it rendered the form, it is
   taken off the item's current quantity whatever that is, and it leaves the
   form of every other session, with the stock that one read, as it was. *)
C9_SalesNotSerialized ==
    [][(call'.op = "record_sale")
          => LET s == call'.session
                 i == call'.item_id
             IN  /\ run[s].pc = "sale"
                 /\ run[s].item_id = i
                 /\ run[s].max_qty = call'.max_qty
                 /\ call'.quantity >= 1
                 /\ call'.quantity <= run[s].max_qty
                 /\ i \in DOMAIN inventory
                       => inventory'[i].quantity
                             = inventory[i].quantity - call'.quantity
                 /\ \A t \in Sessions \ {s} : run'[t] = run[t]
      ]_vars

(* Two sales of one item, each no larger than the stock its session read,
   have left the item's quantity negative. *)
C9_Witness ==
    /\ call.op = "record_sale"
    /\ call.item_id \in DOMAIN inventory
    /\ call.quantity <= call.max_qty
    /\ inventory[call.item_id].quantity < 0
    /\ inventory[call.item_id].quantity + call.quantity < call.max_qty
    /\ Len(sales) = 2
    /\ \A k \in 1..2 :
          /\ sales[k].item_id = call.item_id
          /\ sales[k].quantity <= call.max_qty

(* C10: inventory ids increase and are never reused.  add_item gives the new
   row an id above every id in the table, above the id of every item a sale
   was recorded for and above every id given before (inventory_seq, which
   never decreases and bounds the ids in the table); so a sale whose item is
   gone stays without an item and out of get_sales. *)
C10_IdsNeverReused ==
    /\ [](\A i \in DOMAIN inventory : i <= inventory_seq)
    /\ [][/\ inventory_seq' >= inventory_seq
          /\ (call'.op = "add_item")
                => \E id \in DOMAIN inventory' :
                      /\ DOMAIN inventory' = DOMAIN inventory \cup {id}
                      /\ id \notin DOMAIN inventory
                      /\ id > inventory_seq
                      /\ inventory_seq' = id
                      /\ \A j \in DOMAIN inventory : id > j
                      /\ \A k \in 1..Len(sales) : id > sales[k].item_id
          /\ \A k \in 1..Len(sales) :
                sales[k].item_id \notin DOMAIN inventory
                    => (/\ sales'[k] = sales[k]
                        /\ sales'[k].item_id \notin DOMAIN inventory'
                        /\ sales'[k].id \notin SaleIds(get_sales'))
         ]_vars

(* An item was added after the item of a recorded sale was deleted. *)
C10_Witness ==
    /\ call.op = "add_item"
    /\ \E k \in 1..Len(sales) : sales[k].item_id \notin DOMAIN inventory
    /\ Cardinality(DOMAIN inventory) >= 1
    /\ \A i \in DOMAIN inventory :
          \A k \in 1..Len(sales) :
              sales[k].item_id \notin DOMAIN inventory => i > sales[k].item_id

=============================================================================
